---- MODULE Spec2Model ----
(***************************************************************************)
(* NeuroPulse Speech Processor (app.py: local Whisper engine, project.py:  *)
(* Google speech API).  One Streamlit session: every user interaction      *)
(* re-runs main() from its first line; an uncaught exception ends the run  *)
(* and leaves the session waiting for the next interaction.  The model     *)
(* follows main() statement group by statement group and keeps the files   *)
(* the script touches: conversion_history.json, temp_recording.wav,        *)
(* temp_speech.wav and the temporaries of uploaded samples.                *)
(***************************************************************************)
EXTENDS Integers, Sequences, FiniteSets, TLC

\* ---------------------------------------------------------------- bounds
\* Longest history log a behaviour builds: save_to_history is not entered
\* once this many records have been appended.
MaxLog == 6
\* Once an environment failure has happened, save_to_history is not entered
\* when this many records have been appended.
MaxFaultLog == 2
\* Number of environment failures (device, engine, file I/O) in a behaviour.
MaxFaults == 1

\* ------------------------------------------------------ program constants
\* history[-5:]
PanelSize == 5

VARIABLES
    variant,      \* "app" (app.py) or "project" (project.py), fixed
    pc,           \* position of the running script in main(), "idle" between runs
    trigger,      \* the interaction that started the current run
    uploaded,     \* st.file_uploader holds a file (persists across re-runs)
    input_text,   \* content of the st.text_area of column 2 (persists)
    hist,         \* conversion_history.json: [kind, log]
    recFile,      \* temp_recording.wav exists
    speechFile,   \* temp_speech.wav exists
    tmpUploads,   \* number of NamedTemporaryFile(delete=False) files on disk
    panel,        \* entries rendered in the sidebar by the current/last run
    text,         \* main(): local `text` (transcription result)
    history,      \* save_to_history(): local `history`
    new_entry,    \* save_to_history(): local `new_entry`
    clock,        \* datetime.datetime.now(), as a logical clock read by save_to_history
    faults,       \* environment failures so far
    outcome,      \* how the last run ended: "none", "running", "ok" or the exception
    atStart,      \* history: the disk as it was when the current run started
    logAtCall,    \* history: the persisted log when save_to_history was entered
    appended,     \* history: the records whose save_to_history call completed
    requested,    \* history: conversions asked for by the user that were saved
    prevFailed,   \* history: the run before the current one ended in an exception
    freshFault,   \* history: an environment failure happened in the current run
    readerObs     \* what a second session's history load observed during this run

widgets == <<uploaded, input_text>>
disk    == <<hist, recFile, speechFile, tmpUploads>>
locals  == <<text, history, new_entry>>
ghosts  == <<atStart, logAtCall, appended, requested, prevFailed>>
vars    == <<variant, pc, trigger, widgets, disk, panel, locals, clock, faults,
             outcome, ghosts, freshFault, readerObs>>

\* ----------------------------------------------------------------- values
SpeechToTextType == "Speech to Text"
TextToSpeechType == "Text to Speech"

\* What the user may type in the text area ("" is the empty text area).
InputTexts == {"", "hi"}

\* model.transcribe(...)["text"] / r.recognize_google(audio)
TranscribedText == "hello"
\* app.py: f"Error in transcription: {str(e)}"
WhisperErrorText == "Error in transcription: e"
\* project.py: the two sentinel texts
UnknownValueText == "Could not understand audio"
RequestErrorText == "Could not request results"

SttErrorTexts(v) ==
    IF v = "app" THEN {WhisperErrorText} ELSE {UnknownValueText, RequestErrorText}

NoEntry == [timestamp |-> 0, text |-> "", type |-> ""]

AbsentFile == [kind |-> "absent", log |-> <<>>]
\* open(history_file, 'w') has truncated the file and nothing is flushed yet
TruncatedFile == [kind |-> "trunc", log |-> <<>>]
\* part of the JSON text reached the file
PartialFile == [kind |-> "partial", log |-> <<>>]
JsonFile(h) == [kind |-> "ok", log |-> h]

\* json.load raises json.JSONDecodeError on an empty or cut-off document
Parsable(f) == f.kind = "ok"

Max(a, b) == IF a >= b THEN a ELSE b
Min(a, b) == IF a <= b THEN a ELSE b

\* ------------------------------------------------------- pure functions
\* history[-n:]
LastN(h, n) == SubSeq(h, Max(1, Len(h) - n + 1), Len(h))

\* reversed(s)
Reversed(s) == [i \in 1..Len(s) |-> s[Len(s) + 1 - i]]

\* Faulty variant of Recent: the slice without reversed().
RecentUnreversed(h) == LastN(h, PanelSize)

\* for entry in reversed(history[-5:]); the panel keeps the entries themselves
\* (each card shows timestamp, type and text[:50]).
Recent(h) == Reversed(LastN(h, PanelSize))

\* Faulty variant of AppendEntry: history.insert(0, new_entry).
PrependEntry(h, e) == <<e>> \o h

\* history.append(new_entry)
AppendEntry(h, e) == Append(h, e)

\* Faulty variant of ConvertRequested: the inner `if input_text:` is missing.
ConvertAlways == trigger = "convert"

\* if st.button("Convert to Speech"): if input_text:
ConvertRequested == trigger = "convert" /\ input_text # ""

Snapshot == [hist |-> hist, recFile |-> recFile, speechFile |-> speechFile,
             tmpUploads |-> tmpUploads]

NoObservation == [kind |-> "none", log |-> <<>>, during |-> "idle"]

\* ------------------------------------------------------------------ Init
Init ==
    /\ variant \in {"app", "project"}
    /\ pc = "idle"
    /\ trigger = "none"
    /\ uploaded = FALSE
    /\ input_text = ""
    /\ hist = AbsentFile
    /\ recFile = FALSE
    /\ speechFile = FALSE
    /\ tmpUploads = 0
    /\ panel = <<>>
    /\ text = ""
    /\ history = <<>>
    /\ new_entry = NoEntry
    /\ clock = 1
    /\ faults = 0
    /\ outcome = "none"
    /\ atStart = [hist |-> AbsentFile, recFile |-> FALSE, speechFile |-> FALSE,
                  tmpUploads |-> 0]
    /\ logAtCall = <<>>
    /\ appended = <<>>
    /\ requested = 0
    /\ prevFailed = FALSE
    /\ freshFault = FALSE
    /\ readerObs = NoObservation

\* ------------------------------------------------------- ends of a run
\* The script returned from main(): locals are gone.
Finish ==
    /\ pc' = "idle"
    /\ outcome' = "ok"
    /\ text' = ""
    /\ history' = <<>>
    /\ new_entry' = NoEntry

\* An uncaught exception: Streamlit shows it and the run ends.
Abort(kind) ==
    /\ pc' = "idle"
    /\ outcome' = kind
    /\ text' = ""
    /\ history' = <<>>
    /\ new_entry' = NoEntry

\* An environment failure is drawn from the fault budget.
Fault ==
    /\ faults < MaxFaults
    /\ faults' = faults + 1
    /\ freshFault' = TRUE

NoFault == UNCHANGED <<faults, freshFault>>

\* ---------------------------------------------------------- user actions
\* Any interaction re-runs main() from the top.
StartRun(trig) ==
    /\ pc = "idle"
    /\ pc' = "display"
    /\ trigger' = trig
    /\ outcome' = "running"
    /\ panel' = <<>>
    /\ atStart' = Snapshot
    /\ prevFailed' = (outcome \notin {"none", "ok"})
    /\ freshFault' = FALSE
    /\ readerObs' = NoObservation
    /\ UNCHANGED <<variant, disk, locals, clock, faults, logAtCall, appended,
                   requested>>

ClickRecord == StartRun("record") /\ UNCHANGED widgets

UploadFile ==
    /\ ~uploaded
    /\ uploaded' = TRUE
    /\ UNCHANGED input_text
    /\ StartRun("upload")

RemoveUpload ==
    /\ uploaded
    /\ uploaded' = FALSE
    /\ UNCHANGED input_text
    /\ StartRun("none")

EditText ==
    /\ \E t \in InputTexts \ {input_text} : input_text' = t
    /\ UNCHANGED uploaded
    /\ StartRun("none")

ClickConvert == StartRun("convert") /\ UNCHANGED widgets

ChangeLanguage == StartRun("none") /\ UNCHANGED widgets

\* ------------------------------------------------------ main(): sidebar
HistoryDisplay ==
    /\ pc = "display"
    /\ IF hist.kind = "absent"
       THEN /\ panel' = <<>>
            /\ pc' = "record"
            /\ UNCHANGED <<outcome, locals>>
       ELSE IF Parsable(hist)
       THEN /\ panel' = Recent(hist.log)
            /\ pc' = "record"
            /\ UNCHANGED <<outcome, locals>>
       ELSE /\ panel' = <<>>
            /\ Abort("StoreCorrupt")
    /\ UNCHANGED <<variant, trigger, widgets, disk, clock, faults, ghosts,
                   freshFault, readerObs>>

\* ------------------------------------------------- main(): Record Audio
\* Faulty variant of RecordAudio: temp_recording.wav is written even when the
\* capture fails.
RecordAudio_WriteFirst ==
    /\ pc = "record"
    /\ IF trigger = "record"
       THEN \/ /\ recFile' = TRUE
               /\ pc' = "transcribe"
               /\ NoFault
               /\ UNCHANGED <<outcome, locals>>
            \/ /\ Fault
               /\ recFile' = TRUE
               /\ Abort("NoInputDevice")
       ELSE /\ pc' = "transcribe"
            /\ NoFault
            /\ UNCHANGED <<recFile, outcome, locals>>
    /\ UNCHANGED <<variant, trigger, widgets, hist, speechFile, tmpUploads,
                   panel, clock, ghosts, readerObs>>

RecordAudio ==
    /\ pc = "record"
    /\ IF trigger = "record"
       THEN \/ /\ recFile' = TRUE
               /\ pc' = "transcribe"
               /\ NoFault
               /\ UNCHANGED <<outcome, locals>>
            \/ /\ Fault
               /\ UNCHANGED recFile
               /\ Abort("NoInputDevice")
       ELSE /\ pc' = "transcribe"
            /\ NoFault
            /\ UNCHANGED <<recFile, outcome, locals>>
    /\ UNCHANGED <<variant, trigger, widgets, hist, speechFile, tmpUploads,
                   panel, clock, ghosts, readerObs>>

\* ------------------------------------------- main(): transcription block
\* if uploaded_file is not None or os.path.exists("temp_recording.wav"):
TranscribeWanted == uploaded \/ recFile

\* app.py writes the upload to a NamedTemporaryFile(delete=False);
\* project.py hands the uploaded buffer to the recogniser.
UsesTempUpload == variant = "app" /\ uploaded

\* speech_to_text(...) and st.text_area("Transcribed Text:", text)
Transcribe ==
    /\ pc = "transcribe"
    /\ IF TranscribeWanted
       THEN /\ tmpUploads' = IF UsesTempUpload THEN tmpUploads + 1 ELSE tmpUploads
            /\ \/ /\ text' = TranscribedText
                  /\ pc' = "stt_save"
                  /\ NoFault
                  /\ UNCHANGED <<outcome, history, new_entry>>
               \/ \* the engine fails and the except clause returns a text
                  /\ Fault
                  /\ \E t \in SttErrorTexts(variant) : text' = t
                  /\ pc' = "stt_save"
                  /\ UNCHANGED <<outcome, history, new_entry>>
               \/ \* project.py: sr.AudioFile(...) / r.record(...) are outside the try
                  /\ variant = "project"
                  /\ Fault
                  /\ Abort("AudioFileError")
       ELSE /\ pc' = "convert"
            /\ NoFault
            /\ UNCHANGED <<tmpUploads, outcome, locals>>
    /\ UNCHANGED <<variant, trigger, widgets, hist, recFile, speechFile, panel,
                   clock, ghosts, readerObs>>

\* -------------------------------------------------------- save_to_history
\* The arguments of the call being made at pc.
SaveText == IF pc = "stt_save" THEN text ELSE input_text
SaveType == IF pc = "stt_save" THEN SpeechToTextType ELSE TextToSpeechType

\* The exploration's bound on the log, by whether a failure has happened.
LogBound == IF faults = 0 THEN MaxLog ELSE MaxFaultLog

\* timestamp, new_entry, the read of the existing log and history.append
SaveLoad ==
    /\ pc \in {"stt_save", "tts_save"}
    /\ Len(appended) < LogBound
    /\ clock' = clock + 1
    /\ logAtCall' = hist.log
    /\ LET entry == [timestamp |-> clock, text |-> SaveText, type |-> SaveType]
       IN IF hist.kind = "absent"
          THEN /\ history' = AppendEntry(<<>>, entry)
               /\ new_entry' = entry
               /\ pc' = "save_open"
               /\ UNCHANGED <<outcome, text>>
          ELSE IF Parsable(hist)
          THEN /\ history' = AppendEntry(hist.log, entry)
               /\ new_entry' = entry
               /\ pc' = "save_open"
               /\ UNCHANGED <<outcome, text>>
          ELSE Abort("StoreCorrupt")
    /\ UNCHANGED <<variant, trigger, widgets, disk, panel, faults, atStart,
                   appended, requested, prevFailed, freshFault, readerObs>>

\* with open(history_file, 'w') as f:  -- the open truncates the file
SaveOpen ==
    /\ pc = "save_open"
    /\ \/ /\ hist' = TruncatedFile
          /\ pc' = "save_dump"
          /\ NoFault
          /\ UNCHANGED <<outcome, locals>>
       \/ \* the open fails (OSError): the file is as it was
          /\ Fault
          /\ UNCHANGED hist
          /\ Abort("WriteError")
    /\ UNCHANGED <<variant, trigger, widgets, recFile, speechFile, tmpUploads,
                   panel, clock, ghosts, readerObs>>

\* The user asked for the conversion whose record is being saved.
AskedFor ==
    \/ new_entry.type = TextToSpeechType
    \/ new_entry.type = SpeechToTextType /\ trigger \in {"record", "upload"}

\* json.dump(history, f) and the close of the with block
SaveDump ==
    /\ pc = "save_dump"
    /\ \/ /\ hist' = JsonFile(history)
          /\ appended' = Append(appended, new_entry)
          /\ requested' = IF AskedFor THEN requested + 1 ELSE requested
          /\ pc' = IF new_entry.type = SpeechToTextType
                   THEN "stt_cleanup" ELSE "tts_remove"
          /\ NoFault
          /\ UNCHANGED <<outcome, locals>>
       \/ \* the write or the flush fails: the document is empty or cut off
          /\ Fault
          /\ hist' \in {TruncatedFile, PartialFile}
          /\ Abort("WriteError")
          /\ UNCHANGED <<appended, requested>>
    /\ UNCHANGED <<variant, trigger, widgets, recFile, speechFile, tmpUploads,
                   panel, clock, atStart, logAtCall, prevFailed, readerObs>>

\* if uploaded_file: os.unlink(audio_path)
SttCleanup ==
    /\ pc = "stt_cleanup"
    /\ tmpUploads' = IF UsesTempUpload THEN tmpUploads - 1 ELSE tmpUploads
    /\ pc' = "convert"
    /\ UNCHANGED <<variant, trigger, widgets, hist, recFile, speechFile, panel,
                   locals, clock, faults, outcome, ghosts, freshFault, readerObs>>

\* --------------------------------------------- main(): Convert to Speech
\* text_to_speech(input_text, engine)
Convert ==
    /\ pc = "convert"
    /\ IF ConvertRequested
       THEN \/ /\ speechFile' = TRUE
               /\ pc' = "tts_read"
               /\ NoFault
               /\ UNCHANGED <<outcome, locals>>
            \/ \* the engine raises; it may or may not have written the file
               /\ Fault
               /\ speechFile' \in {speechFile, TRUE}
               /\ Abort("SynthesisError")
       ELSE /\ Finish
            /\ NoFault
            /\ UNCHANGED speechFile
    /\ UNCHANGED <<variant, trigger, widgets, hist, recFile, tmpUploads, panel,
                   clock, ghosts, readerObs>>

\* with open(audio_file, "rb") as f: audio_bytes = f.read(); st.audio(...)
TtsRead ==
    /\ pc = "tts_read"
    /\ \/ /\ pc' = "tts_save"
          /\ NoFault
          /\ UNCHANGED <<outcome, locals>>
       \/ /\ Fault
          /\ Abort("ReadError")
    /\ UNCHANGED <<variant, trigger, widgets, disk, panel, clock, ghosts,
                   readerObs>>

\* os.remove(audio_file)
TtsRemove ==
    /\ pc = "tts_remove"
    /\ speechFile' = FALSE
    /\ Finish
    /\ UNCHANGED <<variant, trigger, widgets, hist, recFile, tmpUploads, panel,
                   clock, faults, ghosts, freshFault, readerObs>>

\* ------------------------------------------------- a second session reads
\* Another session's run of the sidebar block reads the same file.
ReaderLoad ==
    /\ pc # "idle"
    /\ readerObs' = [kind   |-> IF hist.kind = "absent" THEN "absent"
                                ELSE IF Parsable(hist) THEN "ok" ELSE "error",
                     log    |-> hist.log,
                     during |-> pc]
    /\ readerObs' # readerObs
    /\ UNCHANGED <<variant, pc, trigger, widgets, disk, panel, locals, clock,
                   faults, outcome, ghosts, freshFault>>

Next ==
    \/ ClickRecord
    \/ UploadFile
    \/ RemoveUpload
    \/ EditText
    \/ ClickConvert
    \/ ChangeLanguage
    \/ HistoryDisplay
    \/ RecordAudio
    \/ Transcribe
    \/ SaveLoad
    \/ SaveOpen
    \/ SaveDump
    \/ SttCleanup
    \/ Convert
    \/ TtsRead
    \/ TtsRemove

Spec == Init /\ [][Next]_vars

NextConc == Next \/ ReaderLoad

SpecConc == Init /\ [][NextConc]_vars

\* ================================================================ claims
AllSttErrorTexts == {WhisperErrorText, UnknownValueText, RequestErrorText}

\* Number of Text-to-Speech records in a log.
TtsCount(h) == Cardinality({i \in 1..Len(h) : h[i].type = TextToSpeechType})

IsPrefix(s, t) == Len(s) <= Len(t) /\ SubSeq(t, 1, Len(s)) = s

\* C1: after N successful appends the history panel, once rendered, shows
\* exactly min(N,5) records, the last min(N,5) appended ones, most recent
\* first; a store that was never written renders as an empty panel and the
\* read raises no error.
C1_PanelShowsLastFive ==
    /\ pc = "record" =>
          LET N == Len(appended)
          IN /\ Len(panel) = Min(N, 5)
             /\ \A i \in 1..Len(panel) : panel[i] = appended[N + 1 - i]
    /\ atStart.hist.kind = "absent" => outcome # "StoreCorrupt"

\* C1 witness: the panel was rendered from a store holding more than five
\* records.
C1_Witness == pc = "record" /\ Len(appended) > 5 /\ Len(panel) = 5

\* C2: a save_to_history call that completes leaves the persisted log equal
\* to the log before the call with the new record added at the end; the log
\* the run started from is a prefix of it, and it is the sequence of all
\* records saved so far, in the order they were saved.
C2_AppendKeepsLog ==
    pc \in {"stt_cleanup", "tts_remove"} =>
        /\ Parsable(hist)
        /\ hist.log = Append(logAtCall, new_entry)
        /\ Len(hist.log) = Len(logAtCall) + 1
        /\ IsPrefix(atStart.hist.log, hist.log)
        /\ hist.log = appended

\* C2 witness: the second save of one run completed on a log that already
\* held records before the run.
C2_Witness ==
    /\ pc = "tts_remove"
    /\ Len(atStart.hist.log) >= 1
    /\ Len(hist.log) = Len(atStart.hist.log) + 2

\* C3: when the transcription engine fails, speech_to_text returns a text
\* and the history log after the action is the log before it (no record is
\* appended for the failed transcription).
C3_FailedTranscriptionNotLogged ==
    (pc = "stt_cleanup" /\ text \in AllSttErrorTexts) => hist = atStart.hist

\* C4: when a Convert to Speech action on non-empty text has ended, on
\* whatever path, temp_speech.wav does not exist.
C4_TempSpeechRemoved ==
    (pc = "idle" /\ trigger = "convert" /\ input_text # "" /\ ~atStart.speechFile)
        => ~speechFile

\* C5: a reader that loads the history file while save_to_history is between
\* its file operations observes a complete log, never an empty or cut-off
\* file.
C5_ReaderSeesCompleteLog ==
    readerObs.during \in {"save_open", "save_dump"} => readerObs.kind # "error"

\* C6: a Convert to Speech action with empty text never reaches
\* text_to_speech, creates no temp_speech.wav and appends no Text-to-Speech
\* record.
C6_EmptyTextRejected ==
    (trigger = "convert" /\ input_text = "") =>
        /\ pc \notin {"tts_read", "tts_save", "tts_remove"}
        /\ speechFile = atStart.speechFile
        /\ new_entry.type # TextToSpeechType
        /\ hist.kind \in {"ok", "absent"} =>
              TtsCount(hist.log) = TtsCount(atStart.hist.log)

\* C6 witness: a Convert to Speech action with empty text ran to its end.
C6_Witness ==
    trigger = "convert" /\ input_text = "" /\ pc = "idle" /\ outcome = "ok"

\* C7: after a failed action, an action that meets no new failure of the
\* device, the engines or the file system runs to completion.
C7_SessionUsable ==
    (pc = "idle" /\ prevFailed /\ ~freshFault) => outcome = "ok"

\* C8: an action that ends with StoreCorrupt or NoInputDevice leaves the
\* history file and the audio files on disk as they were when it started.
C8_AbandonedUntouched ==
    (pc = "idle" /\ outcome \in {"StoreCorrupt", "NoInputDevice"})
        => Snapshot = atStart

\* C8 witness: a capture failed while a history and an earlier recording
\* were on disk.
C8_Witness ==
    /\ pc = "idle"
    /\ outcome = "NoInputDevice"
    /\ recFile
    /\ Len(hist.log) >= 1

\* C9: at the end of an action that saved a conversion, the panel on
\* display has that conversion's record as its first entry.
C9_PanelIncludesNewRecord ==
    (pc = "idle" /\ outcome = "ok" /\ hist # atStart.hist) =>
        /\ panel # <<>>
        /\ panel[1] = hist.log[Len(hist.log)]

\* C10: the history log holds one record per conversion the user asked for
\* (a record or upload action, a convert action on non-empty text), and
\* none for a sample of an earlier action.  Stated for the behaviours in
\* which no device, engine or file operation has failed.
C10_OneRecordPerRequest ==
    (faults = 0 /\ Parsable(hist)) => Len(hist.log) = requested
====
